---------------------------- MODULE Spec2Model ----------------------------
(***************************************************************************)
(* A model of json2ciw: the model compiler (CiwConverter.generate_params   *)
(* and _make_ciw_dist), the replication runner (multiple_replications)     *)
(* and the summariser (summarise_results).                                 *)
(*                                                                         *)
(* Numbers.  Probabilities are integers in tenths (6 stands for 0.6).      *)
(* Every other real is an exact rational <<p, q>> in lowest terms with     *)
(* q > 0; <<0, 0>> is the outcome of a division by zero.  Python's 0-based *)
(* list indices are kept: activity i of the code is activities[i + 1] of   *)
(* the TLA+ sequence, routing is a function on 0 .. n-1.                   *)
(***************************************************************************)
EXTENDS Integers, Sequences, FiniteSets, TLC

VARIABLES
    \* ---- CiwConverter.generate_params ----
    model,                  \* self.model: [activities, transitions]
    pc,                     \* position in generate_params
    i,                      \* index of the loop in progress
    node_map,               \* name -> index
    n_nodes,
    number_of_servers,
    service_distributions,
    arrival_distributions,
    routing,                \* the local matrix under construction
    result,                 \* what the caller receives (None until returned)
    error,                  \* the exception that left generate_params
    \* ---- multiple_replications ----
    network,                \* number of transitive nodes of the ciw.Network
    process_model,          \* activities of the ProcessModel argument
    runtime,
    warmup,
    rng,                    \* ciw's global random state: <<seed, draws>>
    engine,                 \* what the engine produced from each random state
    rpc,                    \* position in multiple_replications
    num_reps,
    node_metadata,
    rep,
    Q,                      \* the simulation of this replication
    recs,
    node,                   \* position in Q.transitive_nodes
    records,
    raised,                 \* the exception that left multiple_replications
    returned,               \* the DataFrames returned by the calls so far
    \* ---- summarise_results ----
    df_reps,
    metric_name_map,
    include_resource_in_colname,
    spc,
    summary

compileVars == <<model, pc, i, node_map, n_nodes, number_of_servers,
                 service_distributions, arrival_distributions, routing,
                 result, error>>
runVars == <<network, process_model, runtime, warmup, rng, engine, rpc,
             num_reps, node_metadata, rep, Q, recs, node, records, raised,
             returned>>
sumVars == <<df_reps, metric_name_map, include_resource_in_colname, spc,
             summary>>
vars == <<compileVars, runVars, sumVars>>

\* Python's None, as a value of each shape it is compared with.
None == [type |-> "None"]
NoError == "none"

-----------------------------------------------------------------------------
(* Exact arithmetic *)

Abs(x) == IF x < 0 THEN -x ELSE x

RECURSIVE GCD(_, _)
GCD(a, b) == IF b = 0 THEN a ELSE GCD(b, a % b)

\* p / q; a zero divisor gives <<0, 0>>, Python's ZeroDivisionError.
Div(p, q) ==
    IF q = 0 THEN <<0, 0>>
    ELSE LET g == GCD(Abs(p), Abs(q))
             s == IF q < 0 THEN -1 ELSE 1
         IN  <<(s * p) \div g, (s * q) \div g>>

DivError == <<0, 0>>
Zero == Div(0, 1)
Int2Rat(n) == Div(n, 1)
RatAdd(a, b) == Div(a[1] * b[2] + b[1] * a[2], a[2] * b[2])
RatMul(a, b) == Div(a[1] * b[1], a[2] * b[2])
RatDiv(a, b) == Div(a[1] * b[2], a[2] * b[1])

RECURSIVE SumSeq(_)
SumSeq(s) == IF s = <<>> THEN 0 ELSE Head(s) + SumSeq(Tail(s))

RECURSIVE RatSum(_)
RatSum(s) == IF s = <<>> THEN Zero ELSE RatAdd(Head(s), RatSum(Tail(s)))

SeqsUpTo(S, n) == UNION {[1..k -> S] : k \in 0..n}

-----------------------------------------------------------------------------
(* Bounds *)

MaxActs == 2        \* activities of a compiled process model
MaxTrans == 2       \* transitions of a compiled process model
MaxDistActs == 1    \* activities when the distributions vary
MaxNodes == 2       \* nodes of a simulated network
MaxReps == 2        \* num_reps of one call of multiple_replications
MaxCalls == 2       \* calls of multiple_replications in one process
MaxSumActs == 2     \* activities in a summarised frame
MaxSumReps == 2     \* replications in a summarised frame

-----------------------------------------------------------------------------
(* Distribution Factory: CiwConverter._make_ciw_dist *)

Sampler(kind, args) == [ok |-> TRUE, dist |-> kind, args |-> args]
Raises(exc) == [ok |-> FALSE, error |-> exc]

\* ciw.dists.Exponential(1/p["rate"])
ExponentialArg(rate) == RatDiv(Int2Rat(1), rate)

MakeCiwDist(dist_obj) ==
    LET p == dist_obj.parameters
        Has(keys) == keys \subseteq DOMAIN p
    IN  CASE dist_obj.type = "exponential" ->
               IF ~Has({"rate"}) THEN Raises("KeyError")
               ELSE IF p.rate = Zero THEN Raises("ZeroDivisionError")
               ELSE Sampler("Exponential", <<ExponentialArg(p.rate)>>)
          [] dist_obj.type = "triangular" ->
               IF ~Has({"min", "mode", "max"}) THEN Raises("KeyError")
               ELSE Sampler("Triangular", <<p.min, p.mode, p.max>>)
          [] dist_obj.type = "uniform" ->
               IF ~Has({"min", "max"}) THEN Raises("KeyError")
               ELSE Sampler("Uniform", <<p.min, p.max>>)
          [] dist_obj.type = "deterministic" ->
               IF ~Has({"value"}) THEN Raises("KeyError")
               ELSE Sampler("Deterministic", <<p.value>>)
          [] OTHER -> Raises("ValueError: Unsupported distribution type")

-----------------------------------------------------------------------------
(* Model Compiler: CiwConverter.generate_params *)

Names == {"A", "B"}
Unknown == "Z"
Exit == "Exit"
Probabilities == {4, 6}          \* 0.4 and 0.6, in tenths
One == 10                        \* 1.0, in tenths

Exp(p, q) == [type |-> "exponential", parameters |-> [rate |-> Div(p, q)]]
Distributions ==
    { Exp(2, 1), Exp(1, 2),
      [type |-> "triangular", parameters |-> [min |-> Int2Rat(1), mode |-> Int2Rat(2), max |-> Int2Rat(3)]],
      [type |-> "uniform", parameters |-> [min |-> Int2Rat(1), max |-> Int2Rat(2)]],
      [type |-> "deterministic", parameters |-> [value |-> Int2Rat(1)]],
      [type |-> "lognormal", parameters |-> [mean |-> Int2Rat(1)]] }
NoArrivals == [type |-> "None", parameters |-> <<>>]

Activity(nm, svc, arr) ==
    [name |-> nm, resource |-> [name |-> "staff", capacity |-> 1],
     service_distribution |-> svc, arrival_distribution |-> arr]

Transitions ==
    [source : Names, target : Names \cup {Unknown, Exit},
     probability : Probabilities]
        \cup [source : {Unknown}, target : {"A", Exit}, probability : Probabilities]

\* Process models whose names and transitions vary.
RoutingModels ==
    { [activities |-> [k \in DOMAIN ns |-> Activity(ns[k], Exp(2, 1), NoArrivals)],
       transitions |-> ts] :
        ns \in SeqsUpTo(Names, MaxActs) \ {<<>>},
        ts \in SeqsUpTo(Transitions, MaxTrans) }

\* Process models whose distributions vary.
DistModels ==
    { [activities |-> acts,
       transitions |-> <<[source |-> "A", target |-> "A", probability |-> 4]>>] :
        acts \in SeqsUpTo({Activity("A", s, a) : s \in Distributions,
                           a \in Distributions \cup {NoArrivals}},
                          MaxDistActs) \ {<<>>} }

\* node_map = {act.name: i for i, act in enumerate(self.model.activities)}
NodeMap(activities) ==
    [nm \in {activities[k].name : k \in DOMAIN activities} |->
        CHOOSE idx \in 0..(Len(activities) - 1) :
            /\ activities[idx + 1].name = nm
            /\ \A later \in (idx + 1)..(Len(activities) - 1) :
                   activities[later + 1].name # nm]

\* routing = [[0.0] * n_nodes for _ in range(n_nodes)]
ZeroMatrix(n) == [u \in 0..(n - 1) |-> [v \in 0..(n - 1) |-> 0]]

\* if t.target != "Exit"
IsInternal(t) == t.target # Exit

\* if t.source not in node_map or t.target not in node_map
IsUnknownNode(t, nmap) ==
    t.source \notin DOMAIN nmap \/ t.target \notin DOMAIN nmap

SetRouteAccumulating(matrix, t, nmap) ==
    [matrix EXCEPT ![nmap[t.source]][nmap[t.target]] = @ + t.probability]

\* routing[u_idx][v_idx] = t.probability
SetRoute(matrix, t, nmap) ==
    [matrix EXCEPT ![nmap[t.source]][nmap[t.target]] = t.probability]

\* What the caller holds once generate_params raised with the matrix partly
\* filled: a raise returns nothing.
RaisedWithPartial(partial) == partial
RaisedResult(partial) == None

Params(servers, arrivals, services, matrix) ==
    [type |-> "params", number_of_servers |-> servers,
     arrival_distributions |-> arrivals,
     service_distributions |-> services, routing |-> matrix]

CompileIdle ==
    /\ model = None /\ pc = "idle" /\ i = 0 /\ node_map = <<>> /\ n_nodes = 0
    /\ number_of_servers = <<>> /\ service_distributions = <<>>
    /\ arrival_distributions = <<>> /\ routing = <<>>
    /\ result = None /\ error = NoError

CompileInit ==
    /\ model \in RoutingModels \cup DistModels
    /\ pc = "start" /\ i = 0 /\ node_map = <<>> /\ n_nodes = 0
    /\ number_of_servers = <<>> /\ service_distributions = <<>>
    /\ arrival_distributions = <<>> /\ routing = <<>>
    /\ result = None /\ error = NoError

\* Step 1 and 2: the name map and the empty lists.
MapNames ==
    /\ pc = "start"
    /\ node_map' = NodeMap(model.activities)
    /\ n_nodes' = Len(model.activities)
    /\ number_of_servers' = <<>>
    /\ service_distributions' = <<>>
    /\ arrival_distributions' = <<>>
    /\ pc' = "nodes" /\ i' = 0
    /\ UNCHANGED <<model, routing, result, error>>
    /\ UNCHANGED <<runVars, sumVars>>

ServiceOf(act) == MakeCiwDist(act.service_distribution)
ArrivalOf(act) ==
    IF act.arrival_distribution # NoArrivals
    THEN MakeCiwDist(act.arrival_distribution)
    ELSE [ok |-> TRUE, dist |-> "None", args |-> <<>>]

\* Step 3, one activity.
BuildNode ==
    /\ pc = "nodes" /\ i < Len(model.activities)
    /\ LET act == model.activities[i + 1]
       IN  /\ ServiceOf(act).ok /\ ArrivalOf(act).ok
           /\ number_of_servers' = Append(number_of_servers, act.resource.capacity)
           /\ service_distributions' = Append(service_distributions, ServiceOf(act))
           /\ arrival_distributions' = Append(arrival_distributions, ArrivalOf(act))
    /\ i' = i + 1
    /\ UNCHANGED <<model, pc, node_map, n_nodes, routing, result, error>>
    /\ UNCHANGED <<runVars, sumVars>>

\* Step 3, an activity whose distribution _make_ciw_dist rejects.
BuildNodeRaise ==
    /\ pc = "nodes" /\ i < Len(model.activities)
    /\ LET act == model.activities[i + 1]
       IN  /\ ~(ServiceOf(act).ok /\ ArrivalOf(act).ok)
           /\ error' = IF ~ServiceOf(act).ok THEN ServiceOf(act).error
                       ELSE ArrivalOf(act).error
    /\ pc' = "raised"
    /\ result' = None
    /\ UNCHANGED <<model, i, node_map, n_nodes, number_of_servers,
                   service_distributions, arrival_distributions, routing>>
    /\ UNCHANGED <<runVars, sumVars>>

\* Step 4, the matrix of zeros.
InitRouting ==
    /\ pc = "nodes" /\ i = Len(model.activities)
    /\ routing' = ZeroMatrix(n_nodes)
    /\ pc' = "routing" /\ i' = 0
    /\ UNCHANGED <<model, node_map, n_nodes, number_of_servers,
                   service_distributions, arrival_distributions, result, error>>
    /\ UNCHANGED <<runVars, sumVars>>

\* Step 4, one transition between known internal nodes.
RouteTransition ==
    /\ pc = "routing" /\ i < Len(model.transitions)
    /\ LET t == model.transitions[i + 1]
       IN  /\ IsInternal(t) /\ ~IsUnknownNode(t, node_map)
           /\ routing' = SetRoute(routing, t, node_map)
    /\ i' = i + 1
    /\ UNCHANGED <<model, pc, node_map, n_nodes, number_of_servers,
                   service_distributions, arrival_distributions, result, error>>
    /\ UNCHANGED <<runVars, sumVars>>

\* Step 4, a transition to "Exit".
SkipExit ==
    /\ pc = "routing" /\ i < Len(model.transitions)
    /\ ~IsInternal(model.transitions[i + 1])
    /\ i' = i + 1
    /\ UNCHANGED <<model, pc, node_map, n_nodes, number_of_servers,
                   service_distributions, arrival_distributions, routing,
                   result, error>>
    /\ UNCHANGED <<runVars, sumVars>>

\* Step 4, a transition that names a node the map does not hold.
RaiseUnknownNode ==
    /\ pc = "routing" /\ i < Len(model.transitions)
    /\ LET t == model.transitions[i + 1]
       IN  IsInternal(t) /\ IsUnknownNode(t, node_map)
    /\ error' = "ValueError: Transition references unknown node"
    /\ result' = RaisedResult(Params(number_of_servers, arrival_distributions,
                                     service_distributions, routing))
    /\ pc' = "raised"
    /\ UNCHANGED <<model, i, node_map, n_nodes, number_of_servers,
                   service_distributions, arrival_distributions, routing>>
    /\ UNCHANGED <<runVars, sumVars>>

\* Step 5.
ReturnParams ==
    /\ pc = "routing" /\ i = Len(model.transitions)
    /\ result' = Params(number_of_servers, arrival_distributions,
                        service_distributions, routing)
    /\ pc' = "returned"
    /\ UNCHANGED <<model, i, node_map, n_nodes, number_of_servers,
                   service_distributions, arrival_distributions, routing, error>>
    /\ UNCHANGED <<runVars, sumVars>>

NextCompile ==
    \/ MapNames
    \/ BuildNode
    \/ BuildNodeRaise
    \/ InitRouting
    \/ RouteTransition
    \/ SkipExit
    \/ RaiseUnknownNode
    \/ ReturnParams

RunIdle ==
    /\ network = 0 /\ process_model = <<>> /\ runtime = 0 /\ warmup = 0
    /\ rng = <<0, 0>> /\ engine = <<>> /\ rpc = "off" /\ num_reps = 0
    /\ node_metadata = <<>> /\ rep = 0 /\ Q = None /\ recs = <<>>
    /\ node = 0 /\ records = <<>> /\ raised = NoError /\ returned = <<>>

SumIdle ==
    /\ df_reps = <<>> /\ metric_name_map = None
    /\ include_resource_in_colname = TRUE /\ spc = "off" /\ summary = None

InitCompile == CompileInit /\ RunIdle /\ SumIdle

SpecCompile == InitCompile /\ [][NextCompile]_vars

-----------------------------------------------------------------------------
(* Replication Runner: multiple_replications *)

AllNames == <<"A", "B", "C", "D">>
AllResources == <<"operator", "nurse", "clerk", "porter">>
Digits == <<"1", "2", "3", "4", "5", "6", "7", "8", "9">>

\* The first m activities of a process model; activity k has capacity k.
ModelActivities(m) ==
    [k \in 1..m |->
        [name |-> AllNames[((k - 1) % 4) + 1],
         resource |-> [name |-> AllResources[((k - 1) % 4) + 1], capacity |-> k]]]

\* (runtime, warmup) pairs: no warmup, a warmup inside the run, warmup equal
\* to the runtime, warmup beyond it, and a run of length zero.
Horizons == {<<4, 0>>, <<4, 2>>, <<4, 4>>, <<4, 5>>, <<0, 0>>}

Rec(n, arrival, waiting, service) ==
    [node |-> n, arrival_date |-> arrival, waiting_time |-> waiting,
     service_time |-> service]

\* What one simulation of n nodes run until time t can hand back: the
\* completed-visit records (arrival dates before t) and each node's
\* server_utilisation.  The engine is a black box: any of these may come out
\* of a given random state.
Outcomes(n, t) ==
    IF t = 0
    THEN { [recs |-> <<>>, util |-> [k \in 1..n |-> Zero]] }
    ELSE { [recs |-> <<>>, util |-> [k \in 1..n |-> Div(1, 2)]],
           [recs |-> <<Rec(1, 0, 1, 2), Rec(1, 3, 3, 1)>>,
            util |-> [k \in 1..n |-> IF k = 1 THEN Div(3, 4) ELSE Zero]],
           [recs |-> <<Rec(1, 1, 0, 1), Rec(n, 2, 2, 1), Rec(n, 3, 0, 2)>>,
            util |-> [k \in 1..n |-> Div(1, 4)]] }

\* The random state of a process that has not seeded yet.
Unseeded == <<-1, 0>>

SeedOnlyFirst(seed, state) == IF seed = 0 THEN <<seed, 0>> ELSE state

\* ciw.seed(rep)
Seed(seed, state) == <<seed, 0>>

\* A simulation draws from the random state.
Drawn(state) == <<state[1], state[2] + 1>>

NodeIdZeroBased(idx) == idx

\* node_id = idx + 1
NodeId(idx) == idx + 1

\* node_metadata, for idx, activity in enumerate(process_model.activities)
NodeMetadata(activities) ==
    [id \in {NodeId(idx) : idx \in 0..(Len(activities) - 1)} |->
        LET activity ==
                activities[(CHOOSE idx \in 0..(Len(activities) - 1) :
                                NodeId(idx) = id) + 1]
        IN  [activity_name |-> activity.name,
             resource_name |-> activity.resource.name,
             resource_capacity |-> activity.resource.capacity]]

\* meta.get(..., default)
MetaOf(metadata, node_id) ==
    IF node_id \in DOMAIN metadata THEN metadata[node_id]
    ELSE [activity_name |-> "Node " \o Digits[node_id],
          resource_name |-> "Unknown", resource_capacity |-> 0]

\* if warmup > 0: recs = [r for r in recs if r.arrival_date >= warmup]
WarmupFilter(all, w) ==
    IF w > 0 THEN SelectSeq(all, LAMBDA r : r.arrival_date >= w) ELSE all

\* node_recs = [r for r in recs if r.node == node_id]
NodeRecs(rs, node_id) == SelectSeq(rs, LAMBDA r : r.node = node_id)

Waits(node_recs) == [k \in DOMAIN node_recs |-> node_recs[k].waiting_time]
Services(node_recs) == [k \in DOMAIN node_recs |-> node_recs[k].service_time]

\* statistics.mean: StatisticsError on an empty list
StatisticsMean(xs) == IF xs = <<>> THEN DivError ELSE Div(SumSeq(xs), Len(xs))

\* statistics.mean(xs) if xs else 0.0
MeanOrZero(xs) == IF xs # <<>> THEN StatisticsMean(xs) ELSE Zero

MeanLqUnguarded(total_wait, horizon) == Div(total_wait, horizon)

\* total_wait / horizon if horizon > 0 else 0.0
MeanLq(total_wait, horizon) ==
    IF horizon > 0 THEN Div(total_wait, horizon) ELSE Zero

\* The row of one node of one replication.
Row(r, node_id, metadata, filtered, util, t, w) ==
    LET meta == MetaOf(metadata, node_id)
        node_recs == NodeRecs(filtered, node_id)
        waits == Waits(node_recs)
        services == Services(node_recs)
    IN  [rep |-> r,
         node_id |-> node_id,
         activity_name |-> meta.activity_name,
         resource_name |-> meta.resource_name,
         resource_capacity |-> meta.resource_capacity,
         arrivals |-> Len(node_recs),
         mean_wait |-> MeanOrZero(waits),
         mean_service |-> MeanOrZero(services),
         utilisation |-> RatMul(util, Int2Rat(100)),
         mean_Lq |-> MeanLq(SumSeq(waits), t - w)]

\* The exception a row's arithmetic raises, if any.
RowError(row) ==
    IF row.mean_wait = DivError \/ row.mean_service = DivError
    THEN "StatisticsError"
    ELSE IF row.mean_Lq = DivError THEN "ZeroDivisionError"
    ELSE NoError

RunInit ==
    /\ network \in 1..MaxNodes
    /\ process_model \in {ModelActivities(network), ModelActivities(network - 1)}
    /\ \E h \in Horizons : runtime = h[1] /\ warmup = h[2]
    /\ rng = Unseeded /\ engine = <<>> /\ rpc = "idle" /\ num_reps = 0
    /\ node_metadata = <<>> /\ rep = 0 /\ Q = None /\ recs = <<>>
    /\ node = 0 /\ records = <<>> /\ raised = NoError /\ returned = <<>>

\* A call: the metadata map and the empty record list.
Call ==
    /\ rpc = "idle" /\ Len(returned) < MaxCalls
    /\ \E r \in 0..MaxReps : num_reps' = r
    /\ node_metadata' = NodeMetadata(process_model)
    /\ records' = <<>>
    /\ rep' = 0
    /\ rpc' = "loop"
    /\ UNCHANGED <<network, process_model, runtime, warmup, rng, engine, Q,
                   recs, node, raised, returned>>
    /\ UNCHANGED <<compileVars, sumVars>>

\* for rep in range(num_reps): ciw.seed(rep)
SeedEngine ==
    /\ rpc = "loop" /\ rep < num_reps
    /\ rng' = Seed(rep, rng)
    /\ rpc' = "simulate"
    /\ UNCHANGED <<network, process_model, runtime, warmup, engine, num_reps,
                   node_metadata, rep, Q, recs, node, records, raised, returned>>
    /\ UNCHANGED <<compileVars, sumVars>>

\* Q = ciw.Simulation(network); Q.simulate_until_max_time(runtime).  The
\* engine is deterministic: a random state it has run from before gives the
\* outcome it gave then.
Simulate ==
    /\ rpc = "simulate"
    /\ IF rng \in DOMAIN engine
       THEN Q' = engine[rng] /\ engine' = engine
       ELSE \E o \in Outcomes(network, runtime) :
               /\ Q' = o
               /\ engine' = [s \in DOMAIN engine \cup {rng} |->
                                IF s = rng THEN o ELSE engine[s]]
    /\ rng' = Drawn(rng)
    /\ rpc' = "records"
    /\ UNCHANGED <<network, process_model, runtime, warmup, num_reps,
                   node_metadata, rep, recs, node, records, raised, returned>>
    /\ UNCHANGED <<compileVars, sumVars>>

\* recs = Q.get_all_records(), then the warmup filter.
GetRecords ==
    /\ rpc = "records"
    /\ recs' = WarmupFilter(Q.recs, warmup)
    /\ node' = 1
    /\ rpc' = "nodes"
    /\ UNCHANGED <<network, process_model, runtime, warmup, rng, engine,
                   num_reps, node_metadata, rep, Q, records, raised, returned>>
    /\ UNCHANGED <<compileVars, sumVars>>

\* for node in Q.transitive_nodes: one row.
NodeRow ==
    /\ rpc = "nodes" /\ node <= network
    /\ LET row == Row(rep, node, node_metadata, recs, Q.util[node], runtime, warmup)
       IN  IF RowError(row) = NoError
           THEN /\ records' = Append(records, row)
                /\ node' = node + 1
                /\ UNCHANGED <<rpc, raised>>
           ELSE /\ raised' = RowError(row)
                /\ rpc' = "raised"
                /\ UNCHANGED <<records, node>>
    /\ UNCHANGED <<network, process_model, runtime, warmup, rng, engine,
                   num_reps, node_metadata, rep, Q, recs, returned>>
    /\ UNCHANGED <<compileVars, sumVars>>

\* The end of one replication.
NextRep ==
    /\ rpc = "nodes" /\ node > network
    /\ rep' = rep + 1
    /\ rpc' = "loop"
    /\ UNCHANGED <<network, process_model, runtime, warmup, rng, engine,
                   num_reps, node_metadata, Q, recs, node, records, raised,
                   returned>>
    /\ UNCHANGED <<compileVars, sumVars>>

\* return pd.DataFrame.from_records(records)
ReturnFrame ==
    /\ rpc = "loop" /\ rep = num_reps
    /\ returned' = Append(returned, [num_reps |-> num_reps, rows |-> records])
    /\ rpc' = "idle"
    /\ UNCHANGED <<network, process_model, runtime, warmup, rng, engine,
                   num_reps, node_metadata, rep, Q, recs, node, records, raised>>
    /\ UNCHANGED <<compileVars, sumVars>>

NextRun ==
    \/ Call
    \/ SeedEngine
    \/ Simulate
    \/ GetRecords
    \/ NodeRow
    \/ NextRep
    \/ ReturnFrame

InitRun == CompileIdle /\ RunInit /\ SumIdle

SpecRun == InitRun /\ [][NextRun]_vars

-----------------------------------------------------------------------------
(* Summariser: summarise_results *)

DEFAULT_METRICS ==
    [mean_arrivals |-> "Mean arrivals",
     mean_wait |-> "Mean waiting time",
     mean_service |-> "Mean service time",
     mean_utilisation |-> "Mean utilisation",
     mean_Lq |-> "Mean queue length"]

\* The aggregated columns in the order the summary selects them.
AggregatedColumns ==
    <<"mean_arrivals", "mean_wait", "mean_service", "mean_utilisation", "mean_Lq">>

EmptyMap == <<>>

\* groupby sorts its keys: the alphabetical order of the strings in use.
NameOrder == <<"A", "B", "C", "D">>
ResourceOrder == <<"clerk", "nurse", "operator", "porter">>
PositionIn(order, x) == CHOOSE k \in DOMAIN order : order[k] = x
KeyBefore(k1, k2) ==
    \/ PositionIn(NameOrder, k1[1]) < PositionIn(NameOrder, k2[1])
    \/ /\ k1[1] = k2[1]
       /\ PositionIn(ResourceOrder, k1[2]) < PositionIn(ResourceOrder, k2[2])

KeyOf(row) == <<row.activity_name, row.resource_name>>

RECURSIVE SortedKeys(_)
SortedKeys(keys) ==
    IF keys = {} THEN <<>>
    ELSE LET first == CHOOSE k \in keys : \A o \in keys \ {k} : KeyBefore(k, o)
         IN  <<first>> \o SortedKeys(keys \ {first})

\* df_reps.groupby(["activity_name", "resource_name"])
GroupKeys(df) == SortedKeys({KeyOf(df[k]) : k \in DOMAIN df})
GroupRows(df, key) == SelectSeq(df, LAMBDA row : KeyOf(row) = key)

\* The column of the frame an aggregated column is computed from.
SourceValue(row, column) ==
    CASE column = "mean_arrivals" -> Int2Rat(row.arrivals)
      [] column = "mean_wait" -> row.mean_wait
      [] column = "mean_service" -> row.mean_service
      [] column = "mean_utilisation" -> row.utilisation
      [] column = "mean_Lq" -> row.mean_Lq

PandasSum(values) == RatSum(values)

\* the "mean" aggregation
PandasMean(values) == RatDiv(RatSum(values), Int2Rat(Len(values)))

Aggregate(rows, column) ==
    PandasMean([k \in DOMAIN rows |-> SourceValue(rows[k], column)])

\* summary["activity"]
ActivityLabel(key, with_resource) ==
    IF with_resource THEN key[1] \o " (" \o key[2] \o ")" ELSE key[1]

\* if metric_name_map: summary.rename(index=metric_name_map)
Renamed(name, map) ==
    IF map # EmptyMap /\ name \in DOMAIN map THEN map[name] ELSE name

SummaryTable(df, map, with_resource) ==
    LET used == IF map = None THEN DEFAULT_METRICS ELSE map
        keys == GroupKeys(df)
    IN  [type |-> "table",
         Metric |-> [m \in DOMAIN AggregatedColumns |->
                        Renamed(AggregatedColumns[m], used)],
         columns |-> [c \in DOMAIN keys |-> ActivityLabel(keys[c], with_resource)],
         cells |-> [m \in DOMAIN AggregatedColumns |->
                      [c \in DOMAIN keys |->
                          Aggregate(GroupRows(df, keys[c]), AggregatedColumns[m])]]]

\* The (activity, resource) pairs and the per-replication values frames are
\* built from.
SumActivities == {<<"A", "operator">>, <<"A", "nurse">>, <<"B", "operator">>}
MetricValues ==
    { [arrivals |-> 2, mean_wait |-> Div(1, 1), mean_service |-> Div(3, 1),
       utilisation |-> Div(50, 1), mean_Lq |-> Div(1, 2)],
      [arrivals |-> 5, mean_wait |-> Zero, mean_service |-> Zero,
       utilisation |-> Zero, mean_Lq |-> Zero] }

\* The frame of n activities over r replications, replication by replication.
Frame(acts, r, values) ==
    [k \in 1..(r * Len(acts)) |->
        LET nodeOf == ((k - 1) % Len(acts)) + 1
        IN  [rep |-> (k - 1) \div Len(acts),
             node_id |-> nodeOf,
             activity_name |-> acts[nodeOf][1],
             resource_name |-> acts[nodeOf][2],
             resource_capacity |-> 1,
             arrivals |-> values[k].arrivals,
             mean_wait |-> values[k].mean_wait,
             mean_service |-> values[k].mean_service,
             utilisation |-> values[k].utilisation,
             mean_Lq |-> values[k].mean_Lq]]

SumInit ==
    /\ \E acts \in SeqsUpTo(SumActivities, MaxSumActs) : \E r \in 0..MaxSumReps :
           \E values \in [1..(r * Len(acts)) -> MetricValues] :
               df_reps = Frame(acts, r, values)
    /\ metric_name_map \in {None, EmptyMap}
    /\ include_resource_in_colname \in BOOLEAN
    /\ spc = "start" /\ summary = None

\* summarise_results on a frame with rows.
Summarise ==
    /\ spc = "start" /\ df_reps # <<>>
    /\ summary' = SummaryTable(df_reps, metric_name_map, include_resource_in_colname)
    /\ spc' = "returned"
    /\ UNCHANGED <<df_reps, metric_name_map, include_resource_in_colname>>
    /\ UNCHANGED <<compileVars, runVars>>

\* A frame from no records has no columns: groupby raises KeyError.
SummariseRaise ==
    /\ spc = "start" /\ df_reps = <<>>
    /\ spc' = "raised"
    /\ UNCHANGED <<df_reps, metric_name_map, include_resource_in_colname, summary>>
    /\ UNCHANGED <<compileVars, runVars>>

NextSum ==
    \/ Summarise
    \/ SummariseRaise

InitSum == CompileIdle /\ RunIdle /\ SumInit

SpecSum == InitSum /\ [][NextSum]_vars

-----------------------------------------------------------------------------
(* Claims about the Model Compiler, checked under SpecCompile *)

ActivityNames == [k \in DOMAIN model.activities |-> model.activities[k].name]

\* The probability of the last transition of ts that the name map resolves
\* to the cell (u, v), 0 if none does.  A transition to "Exit" resolves to
\* no cell.
RECURSIVE LastProbability(_, _, _, _)
LastProbability(ts, nmap, u, v) ==
    IF ts = <<>> THEN 0
    ELSE LET t == ts[Len(ts)]
         IN  IF /\ t.target # Exit
                /\ t.source \in DOMAIN nmap /\ t.target \in DOMAIN nmap
                /\ nmap[t.source] = u /\ nmap[t.target] = v
             THEN t.probability
             ELSE LastProbability(SubSeq(ts, 1, Len(ts) - 1), nmap, u, v)

RECURSIVE RowSum(_, _)
RowSum(row, n) == IF n = 0 THEN 0 ELSE row[n - 1] + RowSum(row, n - 1)

HasDuplicateNames ==
    \E k, l \in DOMAIN model.activities :
        k # l /\ model.activities[k].name = model.activities[l].name

\* C1: a returned routing matrix is N x N and routing[u][v] is the
\* probability of the last transition, in list order, whose source is
\* activity u and whose target is activity v, and 0.0 when there is none;
\* transitions to "Exit" change no cell.  (A name denotes the activity the
\* name map gives it.)
C1_RoutingLastWins ==
    pc = "returned" =>
        /\ DOMAIN result.routing = 0..(Len(model.activities) - 1)
        /\ \A u, v \in 0..(Len(model.activities) - 1) :
               /\ DOMAIN result.routing[u] = 0..(Len(model.activities) - 1)
               /\ result.routing[u][v] =
                      LastProbability(model.transitions, node_map, u, v)

\* C1's case: two transitions of one cell with different probabilities
\* were compiled.
C1_Witness ==
    /\ pc = "returned"
    /\ Len(model.transitions) = 2
    /\ model.transitions[1].target # Exit
    /\ model.transitions[1].source = model.transitions[2].source
    /\ model.transitions[1].target = model.transitions[2].target
    /\ model.transitions[1].probability # model.transitions[2].probability

\* C2: every row of a returned routing matrix sums to at most 1.0: a model
\* whose transitions from one source sum to more is never compiled.
C2_RowSumAtMostOne ==
    pc = "returned" =>
        \A u \in DOMAIN result.routing :
            RowSum(result.routing[u], Len(model.activities)) <= One

UnknownNodeError == "ValueError: Transition references unknown node"

\* The transition of the model's own text that first names an unknown node.
IsBadReference(t) ==
    /\ t.target # Exit
    /\ \/ t.source \notin {ActivityNames[k] : k \in DOMAIN ActivityNames}
       \/ t.target \notin {ActivityNames[k] : k \in DOMAIN ActivityNames}
BadReferences == {k \in DOMAIN model.transitions : IsBadReference(model.transitions[k])}
FirstBadReference == CHOOSE k \in BadReferences : \A l \in BadReferences : k <= l
AllDistributionsCompile ==
    \A k \in DOMAIN model.activities :
        ServiceOf(model.activities[k]).ok /\ ArrivalOf(model.activities[k]).ok

\* C3: when a non-Exit transition names an unknown source or target,
\* generate_params raises the unknown-node error at the first such
\* transition and the caller never holds a parameter dictionary, however
\* many earlier transitions were already written into the matrix.
C3_UnknownNodeRaises ==
    BadReferences # {} =>
        /\ result = None
        /\ pc # "returned"
        /\ pc = "routing" => i < FirstBadReference
        /\ (pc = "raised" /\ AllDistributionsCompile) =>
               /\ error = UnknownNodeError
               /\ i + 1 = FirstBadReference

\* C3's case: the raise comes after an earlier transition was written.
C3_Witness ==
    /\ pc = "raised" /\ error = UnknownNodeError
    /\ i > 0 /\ routing # ZeroMatrix(n_nodes)
    /\ result = None

\* C4: two activities with the same name make compilation fail, so after
\* a successful compile the name map is injective with exactly N entries.
C4_DuplicateNamesRejected ==
    pc = "returned" =>
        /\ ~HasDuplicateNames
        /\ Cardinality(DOMAIN node_map) = Len(model.activities)

IsExponential(d) == d.type = "exponential"

\* C5: an exponential descriptor with rate r becomes the engine's
\* exponential sampler with parameter r itself, for service and for arrival
\* distributions alike.
C5_ExponentialUsesRate ==
    pc = "returned" =>
        \A k \in DOMAIN model.activities :
            LET act == model.activities[k]
            IN  /\ IsExponential(act.service_distribution) =>
                       result.service_distributions[k].args =
                           <<act.service_distribution.parameters.rate>>
                /\ IsExponential(act.arrival_distribution) =>
                       result.arrival_distributions[k].args =
                           <<act.arrival_distribution.parameters.rate>>

-----------------------------------------------------------------------------
(* Claims about the Replication Runner, checked under SpecRun *)

\* Every row the runner has produced: those of the call in progress and
\* those of the frames already returned.
AllRows ==
    {records[k] : k \in DOMAIN records}
        \cup UNION {{returned[c].rows[k] : k \in DOMAIN returned[c].rows} :
                        c \in DOMAIN returned}

\* The records the engine gave replication r, whatever the runner kept.
EngineRecords(r) == engine[<<r, 0>>].recs

\* The records of replication r at node n that arrived at or after w.
Observed(r, n, w) ==
    SelectSeq(EngineRecords(r), LAMBDA x : x.node = n /\ x.arrival_date >= w)

RECURSIVE WaitSum(_)
WaitSum(rs) == IF rs = <<>> THEN 0 ELSE Head(rs).waiting_time + WaitSum(Tail(rs))

RECURSIVE ServiceSum(_)
ServiceSum(rs) == IF rs = <<>> THEN 0 ELSE Head(rs).service_time + ServiceSum(Tail(rs))

\* C6: with warmup > 0 the records that arrived before warmup count in none
\* of the five metrics of a row; with warmup equal to the runtime every one
\* of the five metrics of every row is 0.
C6_WarmupExcludesAllFive ==
    warmup > 0 =>
        \A row \in AllRows :
            LET obs == Observed(row.rep, row.node_id, warmup)
            IN  /\ row.arrivals = Len(obs)
                /\ row.mean_wait =
                       (IF obs = <<>> THEN Zero ELSE Div(WaitSum(obs), Len(obs)))
                /\ row.mean_service =
                       (IF obs = <<>> THEN Zero
                        ELSE Div(ServiceSum(obs), Len(obs)))
                /\ warmup = runtime =>
                       /\ row.arrivals = 0
                       /\ row.mean_wait = Zero
                       /\ row.mean_service = Zero
                       /\ row.utilisation = Zero
                       /\ row.mean_Lq = Zero

\* C7: no division by zero and no mean of an empty list, whatever the
\* replications, runtime, warmup and records: a node without records after
\* the filter has arrivals 0 and both means 0.0, and mean_Lq is
\* sum(waits) / (T - W) when T - W > 0 and 0.0 when T <= W.
C7_NoDivisionByZero ==
    /\ raised = NoError
    /\ rpc # "raised"
    /\ \A row \in AllRows :
           LET obs == Observed(row.rep, row.node_id, IF warmup > 0 THEN warmup ELSE 0)
           IN  /\ row.mean_wait # DivError
               /\ row.mean_service # DivError
               /\ row.mean_Lq # DivError
               /\ obs = <<>> =>
                      row.arrivals = 0 /\ row.mean_wait = Zero /\ row.mean_service = Zero
               /\ runtime - warmup > 0 =>
                      row.mean_Lq = Div(WaitSum(obs), runtime - warmup)
               /\ runtime <= warmup => row.mean_Lq = Zero

\* C7's case: a row of a node without records, in a run with T <= W.
C7_Witness ==
    \E row \in AllRows :
        /\ runtime <= warmup
        /\ row.arrivals = 0
        /\ EngineRecords(row.rep) # <<>>

\* C8: replication rep is simulated from the seed rep and nothing else, so
\* the rows of a replication are the same in every call, whatever num_reps
\* and whatever ran before, and two calls with the same inputs return the
\* same rows.
C8_Deterministic ==
    /\ rpc = "simulate" => rng = <<rep, 0>>
    /\ \A r1, r2 \in AllRows :
           (r1.rep = r2.rep /\ r1.node_id = r2.node_id) => r1 = r2
    /\ \A c1, c2 \in DOMAIN returned :
           returned[c1].num_reps = returned[c2].num_reps =>
               returned[c1].rows = returned[c2].rows

\* C8's case: two returned frames that share replication 0, from calls of
\* different num_reps, with records in them.
C8_Witness ==
    /\ Len(returned) = 2
    /\ returned[1].num_reps = 2 /\ returned[2].num_reps = 1
    /\ returned[1].rows # <<>>
    /\ \E k \in DOMAIN returned[1].rows : returned[1].rows[k].arrivals > 0

\* C9: a call returns exactly R x N rows, one per (replication, node), the
\* rows of replication r before those of r + 1, and the row of node id k
\* carries the name, resource name and capacity of activity k - 1.
C9_OneRowPerRepAndNode ==
    \A c \in DOMAIN returned :
        LET frame == returned[c]
        IN  /\ Len(frame.rows) = frame.num_reps * network
            /\ \A r \in 0..(frame.num_reps - 1) : \A k \in 1..network :
                   LET row == frame.rows[r * network + k]
                   IN  /\ row.rep = r
                       /\ row.node_id = k
                       /\ k <= Len(process_model) =>
                              /\ row.activity_name = process_model[k].name
                              /\ row.resource_name = process_model[k].resource.name
                              /\ row.resource_capacity =
                                     process_model[k].resource.capacity

\* C9's case: a returned frame of two replications of a two-node network
\* whose nodes all have an activity.
C9_Witness ==
    \E c \in DOMAIN returned :
        /\ returned[c].num_reps = 2 /\ network = 2 /\ Len(process_model) = 2
        /\ Len(returned[c].rows) = 4

-----------------------------------------------------------------------------
(* Claims about the Summariser, checked under SpecSum *)

FrameKeys == {KeyOf(df_reps[k]) : k \in DOMAIN df_reps}
RowsOfKey(key) == {k \in DOMAIN df_reps : KeyOf(df_reps[k]) = key}

RECURSIVE TotalOver(_, _)
TotalOver(rows, column) ==
    IF rows = {} THEN Zero
    ELSE LET k == CHOOSE x \in rows : TRUE
         IN  RatAdd(SourceValue(df_reps[k], column), TotalOver(rows \ {k}, column))

\* The arithmetic mean of a column over the rows of one activity.
MeanOver(rows, column) == RatDiv(TotalOver(rows, column), Int2Rat(Cardinality(rows)))

\* C10: the summary of the rows of N distinct activities over R replications
\* has exactly 5 metric rows and N activity columns, and every cell is the
\* arithmetic mean of the R values of that metric for that activity.
C10_SummaryShapeAndMeans ==
    spc = "returned" =>
        /\ Len(summary.Metric) = 5
        /\ DOMAIN summary.cells = 1..5
        /\ Len(summary.columns) = Cardinality(FrameKeys)
        /\ \A key \in FrameKeys :
               \E c \in DOMAIN summary.columns :
                   /\ summary.columns[c] =
                          ActivityLabel(key, include_resource_in_colname)
                   /\ \A m \in 1..5 :
                          summary.cells[m][c] =
                              MeanOver(RowsOfKey(key), AggregatedColumns[m])

\* C10's case: two distinct activities over two replications whose values
\* differ, so that a mean is neither of the values.
C10_Witness ==
    /\ spc = "returned"
    /\ Cardinality(FrameKeys) = 2 /\ Len(df_reps) = 4
    /\ \A key \in FrameKeys : Cardinality(RowsOfKey(key)) = 2
    /\ \E c \in DOMAIN summary.columns : summary.cells[1][c] = Div(7, 2)

=============================================================================
